---- MODULE Spec2Model ----
(***************************************************************************)
(* The asynchronous job subsystem of app/jobs/job_manager.py with its      *)
(* routes in app/routes/jobs.py.                                           *)
(*                                                                         *)
(* Scheduling.  Worker loops (JobManager._worker) and the route handlers   *)
(* are coroutines of one asyncio event loop: a coroutine runs without      *)
(* interruption from one suspension point (an await that really waits) to  *)
(* the next.  Each worker has a position pc[t]; the positions in Suspended *)
(* are the awaits of the code, and a step that resumes a suspended         *)
(* coroutine needs the event loop to be free (EventLoopFree).  Between     *)
(* two suspension points the model still takes one step per critical       *)
(* section of the code, so that every intermediate value of a job record   *)
(* is a state.                                                             *)
(*                                                                         *)
(* Time.  datetime.now() reads the variable now, which the environment     *)
(* advances (Tick); two calls may read the same value.                     *)
(***************************************************************************)
EXTENDS Integers, Sequences, FiniteSets, TLC

\* Bounds of the model: the jobs the callers create, the ticks of the clock,
\* and the worker tasks of an earlier start_workers that may still be alive
\* when start_workers runs again.
MaxJobs == 1
MaxClock == 1
MaxOverlap == 1

\* JobManager.__init__(max_workers=2) and Job.max_retries.
max_workers == 2
max_retries == 3
timeout_seconds == 300

\* Python's None: for the Optional[datetime] fields, and for the Optional
\* strings and payloads.
NoTime == 0 - 1
NoValue == "None"


\* JobStatus
PENDING == "pending"
RUNNING == "running"
COMPLETED == "completed"
FAILED == "failed"
CANCELLED == "cancelled"
JobStatus == {PENDING, RUNNING, COMPLETED, FAILED, CANCELLED}

\* JobType
FOOD_SEARCH == "food_search"
RESTAURANT_SEARCH == "restaurant_search"
HEALTH_CHECK == "health_check"
JobType == {FOOD_SEARCH, RESTAURANT_SEARCH, HEALTH_CHECK}

\* job_data: whether SearchRequest(**job_data) accepts it.
\* JobRequest.priority is in 1..10.
FoodRequest == [job_type |-> FOOD_SEARCH, job_data |-> "valid", priority |-> 1]
BadFoodRequest == [job_type |-> FOOD_SEARCH, job_data |-> "malformed", priority |-> 9]
HealthRequest == [job_type |-> HEALTH_CHECK, job_data |-> "valid", priority |-> 9]
RestaurantRequest == [job_type |-> RESTAURANT_SEARCH, job_data |-> "valid", priority |-> 1]
RoutineHealthRequest == [job_type |-> HEALTH_CHECK, job_data |-> "valid", priority |-> 1]

JobRequests ==
    {FoodRequest, BadFoodRequest, HealthRequest, RestaurantRequest, RoutineHealthRequest}

\* The environments a behaviour runs in: how many jobs the callers create
\* and with which requests, how many worker tasks can be alive at once, how
\* far the clock runs.
\*   "requests": every kind of job, the failing ones and their retries
\*               included, on a clock that stands still;
\*   "priority": one job more, of two priorities;
\*   "clock":    as many jobs, on a running clock;
\*   "restart":  one more job than workers, and room for tasks of the
\*               earlier start to outlive a stop_workers/start_workers.
Scenarios ==
    { [name |-> "requests", jobs |-> MaxJobs, tasks |-> max_workers, clock |-> 0,
       requests |-> {FoodRequest, BadFoodRequest, HealthRequest, RestaurantRequest}],
      [name |-> "priority", jobs |-> MaxJobs + 1, tasks |-> max_workers, clock |-> 0,
       requests |-> {RoutineHealthRequest, HealthRequest}],
      [name |-> "clock", jobs |-> MaxJobs + 1, tasks |-> max_workers, clock |-> MaxClock,
       requests |-> {HealthRequest}],
      [name |-> "restart", jobs |-> max_workers + 1,
       tasks |-> max_workers + MaxOverlap, clock |-> 0,
       requests |-> {HealthRequest}] }

\* JobProgress() with its defaults.
JobProgress ==
    [current_step |-> 0, total_steps |-> 1, step_description |-> NoValue,
     progress_percentage |-> 0]

VARIABLES
    jobs,             \* JobManager.jobs: id -> Job
    job_queue,        \* JobManager.job_queue: the tickets <<priority, id>>
    workers_running,  \* JobManager.workers_running
    pc,               \* per worker task: its position in _worker/_execute_job
    ticket,           \* per worker task: the (priority, job_id) it dequeued
    exc,              \* per worker task: the exception e of _execute_job
    req,              \* the route handler being served and its response
    now,              \* the wall clock datetime.now() reads
    attempts,         \* per job: how often a worker set it RUNNING
    limits            \* the environment of this behaviour, one of Scenarios

vars == <<jobs, job_queue, workers_running, pc, ticket, exc, req, now, attempts, limits>>

\* The slots of worker tasks, and the ids a caller may ask about.
TaskIds == DOMAIN pc
RequestIds == 1..limits.jobs

NoTicket == <<0, 0>>
NoRequest == [op |-> "none"]

\* Positions of suspension that include the except handler.
Suspended_in_handler ==
    {"none", "created", "poll", "held", "await_search", "await_sleep", "retry"}

\* The positions at which a worker coroutine is suspended in an await (or
\* does not exist, "none"; or was created and has not run yet, "created").
Suspended == {"none", "created", "poll", "held", "await_search", "await_sleep"}

\* The event loop runs no coroutine: no handler is being served and every
\* worker is suspended.
EventLoopFree ==
    /\ req = NoRequest
    /\ \A t \in TaskIds : pc[t] \in Suspended

\* A worker may take its next step: it is the coroutine the loop is running,
\* or it is resumed by a free loop.
CanRun(t) ==
    IF pc[t] \in Suspended THEN EventLoopFree ELSE req = NoRequest

Init ==
    /\ limits \in Scenarios
    /\ jobs = << >>
    /\ job_queue = << >>
    /\ workers_running = FALSE
    /\ pc = [t \in 1..limits.tasks |-> "none"]
    /\ ticket = [t \in 1..limits.tasks |-> NoTicket]
    /\ exc = [t \in 1..limits.tasks |-> NoValue]
    /\ req = NoRequest
    /\ now = 0
    /\ attempts = << >>

\* Job(job_type=..., job_data=..., priority=..., timeout_seconds=...): the
\* other fields take their defaults; created_at is datetime.now().
Job(id, job_request) ==
    [id |-> id,
     status |-> PENDING,
     job_type |-> job_request.job_type,
     job_data |-> job_request.job_data,
     created_at |-> now,
     started_at |-> NoTime,
     completed_at |-> NoTime,
     progress |-> JobProgress,
     result |-> NoValue,
     error_message |-> NoValue,
     priority |-> job_request.priority,
     timeout_seconds |-> timeout_seconds,
     retry_count |-> 0,
     max_retries |-> max_retries]

\* An id factory that hands out the newest job's id again.
uuid4_reused == IF DOMAIN jobs = {} THEN 1 ELSE Cardinality(DOMAIN jobs)

\* uuid.uuid4(): an id no job has had.  Ids are numbered in the order of
\* their creation, which is also the order of the dict self.jobs.
uuid4 == Cardinality(DOMAIN jobs) + 1

\* self.jobs[job.id] = job
StorePut(store, job) == (job.id :> job) @@ store

\* A queue that takes every ticket twice.
put_nowait_twice(queue, item) == Append(Append(queue, item), item)

\* A queue that drops what is put in.
put_nowait_dropped(queue, item) == queue

\* A queue that hands out the newest ticket first.
put_nowait_front(queue, item) == <<item>> \o queue

\* self.job_queue.put_nowait((priority, id)) on an asyncio.Queue: first in,
\* first out.
put_nowait(queue, item) == Append(queue, item)

\* self.jobs.get(job_id)
NoJob == [id |-> 0]
get_job(store, job_id) == IF job_id \in DOMAIN store THEN store[job_id] ELSE NoJob

\* A cancel_job that does not look at the status.
cancel_job_ok_any_status(job_id) == get_job(jobs, job_id) # NoJob

\* JobManager.cancel_job: its test, and the store it leaves.
cancel_job_ok(job_id) ==
    /\ get_job(jobs, job_id) # NoJob
    /\ jobs[job_id].status = PENDING

\* A cancel_job that does not set completed_at.
cancel_job_store_no_timestamp(job_id) ==
    IF cancel_job_ok(job_id)
    THEN [jobs EXCEPT ![job_id].status = CANCELLED]
    ELSE jobs

cancel_job_store(job_id) ==
    IF cancel_job_ok(job_id)
    THEN [jobs EXCEPT ![job_id].status = CANCELLED,
                      ![job_id].completed_at = now]
    ELSE jobs

\* A sort without reverse=True: a job goes behind the jobs that are at most
\* as new.
InsertByCreationAscending(sorted, job) ==
    LET k == Cardinality({i \in 1..Len(sorted) : sorted[i].created_at <= job.created_at})
    IN SubSeq(sorted, 1, k) \o <<job>> \o SubSeq(sorted, k + 1, Len(sorted))

\* jobs.sort(key=lambda x: x.created_at, reverse=True): a stable sort, so
\* jobs of equal created_at keep the order they had.  InsertByCreation puts
\* job behind every job of sorted that is at least as new.
InsertByCreation(sorted, job) ==
    LET k == Cardinality({i \in 1..Len(sorted) : sorted[i].created_at >= job.created_at})
    IN SubSeq(sorted, 1, k) \o <<job>> \o SubSeq(sorted, k + 1, Len(sorted))

RECURSIVE SortNewestFirst(_)
SortNewestFirst(seq) ==
    IF seq = << >> THEN << >>
    ELSE InsertByCreation(SortNewestFirst(SubSeq(seq, 1, Len(seq) - 1)), seq[Len(seq)])

\* seq[:limit], also for a negative limit.
SlicePrefix(seq, limit) ==
    IF limit >= 0
    THEN SubSeq(seq, 1, IF limit < Len(seq) THEN limit ELSE Len(seq))
    ELSE SubSeq(seq, 1, IF Len(seq) + limit > 0 THEN Len(seq) + limit ELSE 0)

\* `if status: jobs = [job for job in jobs if job.status == status]`
FilterStatus(seq, status) ==
    IF status # NoValue
    THEN SelectSeq(seq, LAMBDA job : job.status = status)
    ELSE seq

\* JobManager.list_jobs: list(self.jobs.values()) is the store in the order
\* of creation, which is the order of the ids.
list_jobs(status, limit) ==
    SlicePrefix(SortNewestFirst(FilterStatus(jobs, status)), limit)

\* The route's JobResponse: estimated_completion adds a float
\* (timeout_seconds * 0.8) to a datetime, which Python refuses with a
\* TypeError; only a timedelta can be added to a datetime.
PyAdd(a, b) ==
    IF a = "datetime" /\ b = "timedelta" THEN "datetime" ELSE "TypeError"

create_job_response(job) ==
    IF PyAdd("datetime", "float") = "TypeError"
    THEN [code |-> 500, detail |-> "Failed to create job"]
    ELSE [code |-> 200, detail |-> job.status]

\* POST /jobs: JobManager.create_job, then the response.
create_job(job_request) ==
    /\ EventLoopFree
    /\ Cardinality(DOMAIN jobs) < limits.jobs
    /\ job_request \in limits.requests
    /\ LET job == Job(uuid4, job_request)
           response == create_job_response(job)
       IN /\ jobs' = StorePut(jobs, job)
          /\ job_queue' = put_nowait(job_queue, <<job.priority, job.id>>)
          /\ attempts' = (job.id :> 0) @@ attempts
          /\ req' = [op |-> "create", job_id |-> job.id, ret |-> TRUE,
                     code |-> response.code, detail |-> response.detail]
    /\ UNCHANGED <<workers_running, pc, ticket, exc, now, limits>>

\* A route that reports every rejected cancel as not-found.
cancel_job_response_not_found(ret, job) ==
    IF ret THEN [code |-> 200, detail |-> "cancelled successfully"]
    ELSE [code |-> 404, detail |-> "Job not found"]

\* DELETE /jobs/{job_id}: JobManager.cancel_job, then the response.
cancel_job_response(ret, job) ==
    IF ret THEN [code |-> 200, detail |-> "cancelled successfully"]
    ELSE IF job = NoJob THEN [code |-> 404, detail |-> "Job not found"]
    ELSE [code |-> 400, detail |-> job.status]

cancel_job(job_id) ==
    /\ EventLoopFree
    /\ LET ret == cancel_job_ok(job_id)
           store == cancel_job_store(job_id)
           response == cancel_job_response(ret, get_job(store, job_id))
       IN /\ jobs' = store
          /\ req' = [op |-> "cancel", job_id |-> job_id, ret |-> ret,
                     code |-> response.code, detail |-> response.detail]
    /\ UNCHANGED <<job_queue, workers_running, pc, ticket, exc, now, attempts, limits>>

\* The handler returns its response to the caller.
route_return ==
    /\ req # NoRequest
    /\ req' = NoRequest
    /\ UNCHANGED <<jobs, job_queue, workers_running, pc, ticket, exc, now, attempts, limits>>

\* The slots of the tasks start_workers creates: asyncio.create_task for
\* i in range(max_workers).
FreeSlots == {t \in TaskIds : pc[t] = "none"}
NewTasks == {t \in FreeSlots : Cardinality({u \in FreeSlots : u < t}) < max_workers}

start_workers ==
    /\ EventLoopFree
    /\ IF workers_running
       THEN UNCHANGED <<workers_running, pc>>
       ELSE /\ Cardinality(FreeSlots) >= max_workers
            /\ workers_running' = TRUE
            /\ pc' = [t \in TaskIds |-> IF t \in NewTasks THEN "created" ELSE pc[t]]
    /\ UNCHANGED <<jobs, job_queue, ticket, exc, req, now, attempts, limits>>

\* A stop that empties the queue.
stop_workers_drains_queue ==
    /\ EventLoopFree
    /\ workers_running' = FALSE
    /\ job_queue' = << >>
    /\ UNCHANGED <<jobs, pc, ticket, exc, req, now, attempts, limits>>

stop_workers ==
    /\ EventLoopFree
    /\ workers_running' = FALSE
    /\ UNCHANGED <<jobs, job_queue, pc, ticket, exc, req, now, attempts, limits>>

\* A loop that ends after every iteration.
LoopTest_exits_always == "none"

\* A loop that never looks at the flag.
LoopTest_ignores_stop == "poll"

\* `while self.workers_running`: where the loop goes after an iteration.
LoopTest == IF workers_running THEN "poll" ELSE "none"

\* The task starts to run: the first test of the loop.
worker_start(t) ==
    /\ pc[t] = "created"
    /\ CanRun(t)
    /\ pc' = [pc EXCEPT ![t] = LoopTest]
    /\ UNCHANGED <<jobs, job_queue, workers_running, ticket, exc, req, now, attempts, limits>>

\* asyncio.wait_for(self.job_queue.get(), timeout=1.0) returns a ticket.
queue_get(t) ==
    /\ pc[t] = "poll"
    /\ CanRun(t)
    /\ job_queue # << >>
    /\ ticket' = [ticket EXCEPT ![t] = Head(job_queue)]
    /\ job_queue' = Tail(job_queue)
    /\ pc' = [pc EXCEPT ![t] = "held"]
    /\ UNCHANGED <<jobs, workers_running, exc, req, now, attempts, limits>>

\* The poll times out on an empty queue: continue.
poll_timeout(t) ==
    /\ pc[t] = "poll"
    /\ CanRun(t)
    /\ job_queue = << >>
    /\ pc' = [pc EXCEPT ![t] = LoopTest]
    /\ UNCHANGED <<jobs, job_queue, workers_running, ticket, exc, req, now, attempts, limits>>

\* A worker that lets a cancelled job through.
should_skip_allows_cancelled(job) == job = NoJob \/ job.status \notin {PENDING, CANCELLED}

\* A worker that discards every ticket.
should_skip_always(job) == TRUE

\* A worker that does not look at the status again after the dequeue.
should_skip_no_recheck(job) == job = NoJob

\* `if not job or job.status != JobStatus.PENDING: continue`
should_skip(job) == job = NoJob \/ job.status # PENDING

\* job = self.jobs.get(job_id); a job that is gone or no longer PENDING is
\* skipped, any other goes to _execute_job.
worker_fetch(t) ==
    /\ pc[t] = "held"
    /\ CanRun(t)
    /\ LET job == get_job(jobs, ticket[t][2])
       IN IF should_skip(job)
          THEN /\ pc' = [pc EXCEPT ![t] = LoopTest]
               /\ ticket' = [ticket EXCEPT ![t] = NoTicket]
          ELSE /\ pc' = [pc EXCEPT ![t] = "execute"]
               /\ UNCHANGED ticket
    /\ UNCHANGED <<jobs, job_queue, workers_running, exc, req, now, attempts, limits>>

\* _execute_job: mark the job as running.
mark_running(t) ==
    /\ pc[t] = "execute"
    /\ CanRun(t)
    /\ LET id == ticket[t][2]
       IN /\ jobs' = [jobs EXCEPT ![id].status = RUNNING,
                                  ![id].started_at = now,
                                  ![id].progress.step_description = "Initializing...",
                                  ![id].progress.progress_percentage = 0]
          /\ attempts' = [attempts EXCEPT ![id] = @ + 1]
    /\ pc' = [pc EXCEPT ![t] = "dispatch"]
    /\ UNCHANGED <<job_queue, workers_running, ticket, exc, req, now, limits>>

\* A dispatch that runs the health check for every type it does not know.
dispatch_unknown_as_health_check(t) ==
    /\ pc[t] = "dispatch"
    /\ CanRun(t)
    /\ LET id == ticket[t][2]
       IN CASE jobs[id].job_type = FOOD_SEARCH ->
                 /\ jobs' = [jobs EXCEPT ![id].progress.current_step = 1,
                                         ![id].progress.total_steps = 4,
                                         ![id].progress.step_description = "Creating search request...",
                                         ![id].progress.progress_percentage = 25]
                 /\ pc' = [pc EXCEPT ![t] = "search_request"]
                 /\ UNCHANGED exc
            [] OTHER ->
                 /\ jobs' = [jobs EXCEPT ![id].progress.step_description = "Running health check...",
                                         ![id].progress.progress_percentage = 50]
                 /\ pc' = [pc EXCEPT ![t] = "await_sleep"]
                 /\ UNCHANGED exc
    /\ UNCHANGED <<job_queue, workers_running, ticket, req, now, attempts, limits>>

\* The dispatch on job.job_type, up to the first critical section of the
\* handler: _execute_food_search, _execute_health_check, or the ValueError
\* of an unknown type.
dispatch(t) ==
    /\ pc[t] = "dispatch"
    /\ CanRun(t)
    /\ LET id == ticket[t][2]
       IN CASE jobs[id].job_type = FOOD_SEARCH ->
                 /\ jobs' = [jobs EXCEPT ![id].progress.current_step = 1,
                                         ![id].progress.total_steps = 4,
                                         ![id].progress.step_description = "Creating search request...",
                                         ![id].progress.progress_percentage = 25]
                 /\ pc' = [pc EXCEPT ![t] = "search_request"]
                 /\ UNCHANGED exc
            [] jobs[id].job_type = HEALTH_CHECK ->
                 /\ jobs' = [jobs EXCEPT ![id].progress.step_description = "Running health check...",
                                         ![id].progress.progress_percentage = 50]
                 /\ pc' = [pc EXCEPT ![t] = "await_sleep"]
                 /\ UNCHANGED exc
            [] OTHER ->
                 /\ exc' = [exc EXCEPT ![t] = "Unknown job type: " \o jobs[id].job_type]
                 /\ pc' = [pc EXCEPT ![t] = "except"]
                 /\ UNCHANGED jobs
    /\ UNCHANGED <<job_queue, workers_running, ticket, req, now, attempts, limits>>

\* SearchRequest(**job_data): a validation error on a malformed payload,
\* else the second progress update.
search_request(t) ==
    /\ pc[t] = "search_request"
    /\ CanRun(t)
    /\ LET id == ticket[t][2]
       IN IF jobs[id].job_data = "malformed"
          THEN /\ exc' = [exc EXCEPT ![t] = "validation error for SearchRequest"]
               /\ pc' = [pc EXCEPT ![t] = "except"]
               /\ UNCHANGED jobs
          ELSE /\ jobs' = [jobs EXCEPT ![id].progress.current_step = 2,
                                       ![id].progress.step_description = "Initializing browser agent...",
                                       ![id].progress.progress_percentage = 50]
               /\ pc' = [pc EXCEPT ![t] = "agent"]
               /\ UNCHANGED exc
    /\ UNCHANGED <<job_queue, workers_running, ticket, req, now, attempts, limits>>

\* RappiAgent(): raises without an OPENAI_API_KEY; else the third progress
\* update and the await of run_in_executor.
rappi_agent(t) ==
    /\ pc[t] = "agent"
    /\ CanRun(t)
    /\ LET id == ticket[t][2]
       IN \E api_key \in BOOLEAN :
            IF ~api_key
            THEN /\ exc' = [exc EXCEPT ![t] = "OPENAI_API_KEY environment variable is required"]
                 /\ pc' = [pc EXCEPT ![t] = "except"]
                 /\ UNCHANGED jobs
            ELSE /\ jobs' = [jobs EXCEPT ![id].progress.current_step = 3,
                                         ![id].progress.step_description = "Searching Rappi...",
                                         ![id].progress.progress_percentage = 75]
                 /\ pc' = [pc EXCEPT ![t] = "await_search"]
                 /\ UNCHANGED exc
    /\ UNCHANGED <<job_queue, workers_running, ticket, req, now, attempts, limits>>

\* The search in the executor thread ends: it raises, or it returns and the
\* last progress update follows.
search_done(t) ==
    /\ pc[t] = "await_search"
    /\ CanRun(t)
    /\ LET id == ticket[t][2]
       IN \E raised \in BOOLEAN :
            IF raised
            THEN /\ exc' = [exc EXCEPT ![t] = "search failed"]
                 /\ pc' = [pc EXCEPT ![t] = "except"]
                 /\ UNCHANGED jobs
            ELSE /\ jobs' = [jobs EXCEPT ![id].progress.current_step = 4,
                                         ![id].progress.step_description = "Processing results...",
                                         ![id].progress.progress_percentage = 100]
                 /\ pc' = [pc EXCEPT ![t] = "completed"]
                 /\ UNCHANGED exc
    /\ UNCHANGED <<job_queue, workers_running, ticket, req, now, attempts, limits>>

\* asyncio.sleep(2) of the health check ends.
sleep_done(t) ==
    /\ pc[t] = "await_sleep"
    /\ CanRun(t)
    /\ pc' = [pc EXCEPT ![t] = "completed"]
    /\ UNCHANGED <<jobs, job_queue, workers_running, ticket, exc, req, now, attempts, limits>>

\* A handler that returns nothing.
handler_result_none(job) == NoValue

\* What the handler of the job's type returned.
handler_result(job) ==
    IF job.job_type = HEALTH_CHECK THEN "healthy" ELSE "search_response"

\* A completion that leaves the progress where the handler left it.
mark_completed_keeps_progress(t) ==
    /\ pc[t] = "completed"
    /\ CanRun(t)
    /\ LET id == ticket[t][2]
       IN jobs' = [jobs EXCEPT ![id].status = COMPLETED,
                               ![id].completed_at = now,
                               ![id].result = handler_result(jobs[id]),
                               ![id].progress.step_description = "Completed"]
    /\ pc' = [pc EXCEPT ![t] = LoopTest]
    /\ ticket' = [ticket EXCEPT ![t] = NoTicket]
    /\ UNCHANGED <<job_queue, workers_running, exc, req, now, attempts, limits>>

\* _execute_job: mark the job as completed; back to the loop.
mark_completed(t) ==
    /\ pc[t] = "completed"
    /\ CanRun(t)
    /\ LET id == ticket[t][2]
       IN jobs' = [jobs EXCEPT ![id].status = COMPLETED,
                               ![id].completed_at = now,
                               ![id].result = handler_result(jobs[id]),
                               ![id].progress.progress_percentage = 100,
                               ![id].progress.step_description = "Completed"]
    /\ pc' = [pc EXCEPT ![t] = LoopTest]
    /\ ticket' = [ticket EXCEPT ![t] = NoTicket]
    /\ UNCHANGED <<job_queue, workers_running, exc, req, now, attempts, limits>>

\* A failure that records the message and leaves the status RUNNING.
mark_failed_keeps_running(t) ==
    /\ pc[t] = "except"
    /\ CanRun(t)
    /\ LET id == ticket[t][2]
       IN jobs' = [jobs EXCEPT ![id].completed_at = now,
                               ![id].error_message = exc[t],
                               ![id].progress.step_description = "Failed: " \o exc[t]]
    /\ pc' = [pc EXCEPT ![t] = "retry"]
    /\ UNCHANGED <<job_queue, workers_running, ticket, exc, req, now, attempts, limits>>

\* A failure that does not record the message.
mark_failed_no_message(t) ==
    /\ pc[t] = "except"
    /\ CanRun(t)
    /\ LET id == ticket[t][2]
       IN jobs' = [jobs EXCEPT ![id].status = FAILED,
                               ![id].completed_at = now,
                               ![id].progress.step_description = "Failed: " \o exc[t]]
    /\ pc' = [pc EXCEPT ![t] = "retry"]
    /\ UNCHANGED <<job_queue, workers_running, ticket, exc, req, now, attempts, limits>>

\* except Exception as e: mark the job as failed (the store lock stays held).
mark_failed(t) ==
    /\ pc[t] = "except"
    /\ CanRun(t)
    /\ LET id == ticket[t][2]
       IN jobs' = [jobs EXCEPT ![id].status = FAILED,
                               ![id].completed_at = now,
                               ![id].error_message = exc[t],
                               ![id].progress.step_description = "Failed: " \o exc[t]]
    /\ pc' = [pc EXCEPT ![t] = "retry"]
    /\ UNCHANGED <<job_queue, workers_running, ticket, exc, req, now, attempts, limits>>

\* A retry test that is off by one.
can_retry_off_by_one(job) == job.retry_count <= job.max_retries

\* `if job.retry_count < job.max_retries`
can_retry(job) == job.retry_count < job.max_retries

\* A retry that keeps the progress of the failed attempt.
retry_reset_keeps_progress(job) ==
    [job EXCEPT !.retry_count = @ + 1,
                !.status = PENDING,
                !.started_at = NoTime,
                !.completed_at = NoTime,
                !.error_message = NoValue]

\* A retry that counts twice.
retry_reset_counts_double(job) ==
    [job EXCEPT !.retry_count = @ + 2,
                !.status = PENDING,
                !.started_at = NoTime,
                !.completed_at = NoTime,
                !.error_message = NoValue,
                !.progress = JobProgress]

\* A retry that keeps the message of the failed attempt.
retry_reset_keeps_error(job) ==
    [job EXCEPT !.retry_count = @ + 1,
                !.status = PENDING,
                !.started_at = NoTime,
                !.completed_at = NoTime,
                !.progress = JobProgress]

\* A retry that keeps the timestamps of the failed attempt.
retry_reset_keeps_timestamps(job) ==
    [job EXCEPT !.retry_count = @ + 1,
                !.status = PENDING,
                !.error_message = NoValue,
                !.progress = JobProgress]

\* The job as the retry branch leaves it.
retry_reset(job) ==
    [job EXCEPT !.retry_count = @ + 1,
                !.status = PENDING,
                !.started_at = NoTime,
                !.completed_at = NoTime,
                !.error_message = NoValue,
                !.progress = JobProgress]

\* The retry logic, still under the lock; back to the loop.
retry_job(t) ==
    /\ pc[t] = "retry"
    /\ CanRun(t)
    /\ LET id == ticket[t][2]
           job == jobs[id]
       IN IF can_retry(job)
          THEN /\ jobs' = [jobs EXCEPT ![id] = retry_reset(job)]
               /\ job_queue' = put_nowait(job_queue, <<job.priority, job.id>>)
          ELSE UNCHANGED <<jobs, job_queue>>
    /\ pc' = [pc EXCEPT ![t] = LoopTest]
    /\ ticket' = [ticket EXCEPT ![t] = NoTicket]
    /\ exc' = [exc EXCEPT ![t] = NoValue]
    /\ UNCHANGED <<workers_running, req, now, attempts, limits>>

Tick ==
    /\ EventLoopFree
    /\ now < limits.clock
    /\ now' = now + 1
    /\ UNCHANGED <<jobs, job_queue, workers_running, pc, ticket, exc, req, attempts, limits>>

Next ==
    \/ Tick
    \/ \E job_request \in JobRequests : create_job(job_request)
    \/ \E job_id \in RequestIds : cancel_job(job_id)
    \/ route_return
    \/ start_workers
    \/ stop_workers
    \/ \E t \in TaskIds : worker_start(t)
    \/ \E t \in TaskIds : queue_get(t)
    \/ \E t \in TaskIds : poll_timeout(t)
    \/ \E t \in TaskIds : worker_fetch(t)
    \/ \E t \in TaskIds : mark_running(t)
    \/ \E t \in TaskIds : dispatch(t)
    \/ \E t \in TaskIds : search_request(t)
    \/ \E t \in TaskIds : rappi_agent(t)
    \/ \E t \in TaskIds : search_done(t)
    \/ \E t \in TaskIds : sleep_done(t)
    \/ \E t \in TaskIds : mark_completed(t)
    \/ \E t \in TaskIds : mark_failed(t)
    \/ \E t \in TaskIds : retry_job(t)

Spec == Init /\ [][Next]_vars

\* The steps of worker task t, and the slots a scenario may have.
WorkerStep(t) ==
    /\ t \in TaskIds
    /\ \/ worker_start(t) \/ queue_get(t) \/ poll_timeout(t) \/ worker_fetch(t)
       \/ mark_running(t) \/ dispatch(t) \/ search_request(t) \/ rappi_agent(t)
       \/ search_done(t) \/ sleep_done(t) \/ mark_completed(t) \/ mark_failed(t)
       \/ retry_job(t)
TaskSlots == 1..(max_workers + MaxOverlap)

\* The event loop runs what is ready: a handler that is being served
\* returns, and as long as some worker can run again and again (its poll
\* timed out, its ticket arrived, its sleep or its search ended), some worker
\* is run, however often handlers take the loop in between. The sleep ends
\* after 2 seconds; the search in the executor thread is taken to end, by
\* returning or by raising.
Fairness ==
    /\ WF_vars(route_return)
    /\ SF_vars(\E t \in TaskSlots : WorkerStep(t))

\* The environments of the fair behaviours: every kind of job, a running
\* clock, and worker tasks that outlive a stop_workers/start_workers.
FairScenarios ==
    { [name |-> "requests", jobs |-> MaxJobs, tasks |-> max_workers, clock |-> 0,
       requests |-> {FoodRequest, BadFoodRequest, HealthRequest, RestaurantRequest}],
      [name |-> "tick", jobs |-> MaxJobs, tasks |-> max_workers, clock |-> MaxClock,
       requests |-> {HealthRequest}],
      [name |-> "overlap", jobs |-> MaxJobs, tasks |-> max_workers + MaxOverlap,
       clock |-> 0, requests |-> {HealthRequest}] }

FairInit ==
    /\ limits \in FairScenarios
    /\ jobs = << >>
    /\ job_queue = << >>
    /\ workers_running = FALSE
    /\ pc = [t \in 1..limits.tasks |-> "none"]
    /\ ticket = [t \in 1..limits.tasks |-> NoTicket]
    /\ exc = [t \in 1..limits.tasks |-> NoValue]
    /\ req = NoRequest
    /\ now = 0
    /\ attempts = << >>

FairSpec == FairInit /\ [][Next]_vars /\ Fairness

(***************************************************************************)
(* The claims.                                                             *)
(***************************************************************************)

\* The job a worker is executing, and the workers inside the except
\* handler of a job.
Holds(t, id) == ticket[t] # NoTicket /\ ticket[t][2] = id
InHandler(id) == \E t \in TaskIds : pc[t] = "retry" /\ Holds(t, id)
Status(id) == jobs[id].status

\* A step of the cancel route, of the create route.
CancelStep == req = NoRequest /\ req' # NoRequest /\ req'.op = "cancel"
CreateStep == req = NoRequest /\ req' # NoRequest /\ req'.op = "create"

\* The edges of the state machine, each with the step that may take it.
StatusEdge(id) ==
    LET a == jobs[id].status
        b == jobs'[id].status
    IN a # b =>
         \/ /\ a = PENDING /\ b = RUNNING
            /\ \E t \in TaskIds : pc[t] = "execute" /\ pc'[t] = "dispatch" /\ Holds(t, id)
         \/ /\ a = RUNNING /\ b = COMPLETED
            /\ \E t \in TaskIds : pc[t] = "completed" /\ Holds(t, id)
         \/ /\ a = RUNNING /\ b = FAILED
            /\ \E t \in TaskIds : pc[t] = "except" /\ Holds(t, id)
         \/ /\ a = FAILED /\ b = PENDING
            /\ jobs[id].retry_count < jobs[id].max_retries
         \/ /\ a = PENDING /\ b = CANCELLED
            /\ CancelStep /\ req'.job_id = id

\* C1: a job's status changes only along PENDING->RUNNING (a worker picks it
\* up), RUNNING->COMPLETED (the executor returned), RUNNING->FAILED (the
\* executor raised), FAILED->PENDING (while retry_count < max_retries) and
\* PENDING->CANCELLED (cancel_job); a job left FAILED once the handler is
\* through has its retry budget exhausted; a job is never removed.
C1_StatusMachine ==
    /\ [][\A id \in DOMAIN jobs : id \in DOMAIN jobs' /\ StatusEdge(id)]_vars
    /\ [](\A id \in DOMAIN jobs :
            (Status(id) = FAILED /\ ~InHandler(id)) =>
                jobs[id].retry_count = jobs[id].max_retries)

\* C1's case: a job that failed, went back to PENDING, ran again and
\* completed.
C1_Witness ==
    \E id \in DOMAIN jobs : Status(id) = COMPLETED /\ jobs[id].retry_count > 0

\* C2: a job that is COMPLETED or CANCELLED keeps that status in every step,
\* and a worker that is past its PENDING re-check holds a job that is still
\* PENDING, so that the write of RUNNING never hits a cancelled job.
C2_TerminalStays ==
    /\ [][\A id \in DOMAIN jobs :
            Status(id) \in {COMPLETED, CANCELLED} => jobs'[id].status = Status(id)]_vars
    /\ [](\A t \in TaskIds : pc[t] = "execute" => Status(ticket[t][2]) = PENDING)

\* C2's case: a job was cancelled after a worker dequeued its ticket and
\* before the worker looked at it again.
C2_Witness ==
    \E t \in TaskIds : pc[t] = "held" /\ Status(ticket[t][2]) = CANCELLED

\* C3: a worker never dequeues a ticket while a ticket of a strictly higher
\* priority number waits in the queue.
C3_MostUrgentFirst ==
    [][\A t \in TaskIds :
         (pc[t] = "poll" /\ pc'[t] = "held") =>
             \A i \in 1..Len(job_queue) : job_queue[i][1] <= ticket'[t][1]]_vars

\* The tickets of a job that are in the queue or in a worker's hands.
Tickets(id) ==
    Cardinality({i \in 1..Len(job_queue) : job_queue[i][2] = id})
    + Cardinality({t \in TaskIds : Holds(t, id)})

\* C4: no job is executed more than max_retries + 1 times, and a job left
\* FAILED (every attempt failed) was executed exactly max_retries + 1 times
\* and has no ticket left that could start it again.
C4_RetryBound ==
    \A id \in DOMAIN jobs :
        /\ attempts[id] <= max_retries + 1
        /\ (Status(id) = FAILED /\ ~InHandler(id)) =>
               /\ attempts[id] = max_retries + 1
               /\ \A i \in 1..Len(job_queue) : job_queue[i][2] # id
               /\ \A t \in TaskIds : pc[t] \in {"held", "execute"} => ~Holds(t, id)

\* C4's case: a job rests in FAILED.
C4_Witness ==
    \E id \in DOMAIN jobs : Status(id) = FAILED /\ ~InHandler(id)

\* C5: cancel_job returns true exactly for a job that exists and is PENDING;
\* then the job is CANCELLED with completed_at set and nothing else changed;
\* otherwise the store is unchanged.
C5_CancelOnlyPending ==
    [][CancelStep =>
         LET id == req'.job_id
             pending == id \in DOMAIN jobs /\ jobs[id].status = PENDING
         IN /\ req'.ret <=> pending
            /\ pending =>
                 /\ jobs'[id].completed_at # NoTime
                 /\ jobs' = [jobs EXCEPT ![id].status = CANCELLED,
                                         ![id].completed_at = jobs'[id].completed_at]
            /\ ~pending => jobs' = jobs
            /\ job_queue' = job_queue]_vars

\* C5's case: a cancel of a RUNNING job was refused, next to a job that was
\* cancelled.
C5_Witness ==
    /\ req.op = "cancel" /\ ~req.ret
    /\ req.job_id \in DOMAIN jobs /\ Status(req.job_id) = RUNNING
    /\ \E id \in DOMAIN jobs : Status(id) = CANCELLED /\ jobs[id].completed_at # NoTime

\* C6: the cancel route answers 404 exactly for an id that is not in the
\* store, 400 with the job's status exactly for a job that is not PENDING,
\* and 200 exactly for a PENDING job.
C6_CancelResponse ==
    [][CancelStep =>
         LET id == req'.job_id
         IN /\ req'.code = 404 <=> id \notin DOMAIN jobs
            /\ req'.code = 400 <=> (id \in DOMAIN jobs /\ jobs[id].status # PENDING)
            /\ req'.code = 200 <=> (id \in DOMAIN jobs /\ jobs[id].status = PENDING)
            /\ req'.code \in {200, 400, 404}
            /\ req'.code = 400 =>
                 /\ req'.detail = jobs[id].status
                 /\ req'.detail \in JobStatus \ {PENDING}]_vars

\* C6's case: the two rejections, one after the other, cannot be one state;
\* this one is the not-cancellable answer for a completed job while another
\* id is still unknown.
C6_Witness ==
    /\ req.op = "cancel" /\ req.code = 400 /\ req.detail = COMPLETED
    /\ Cardinality(DOMAIN jobs) < limits.jobs

\* The limits a caller of list_jobs passes.
MaxLimit == 3
StatusFilters == JobStatus \cup {NoValue}
Matching(status) == {id \in DOMAIN jobs : status = NoValue \/ Status(id) = status}

\* C7: whenever a caller can run (the event loop is free), list_jobs(status,
\* limit) returns at most limit jobs, all of them jobs of the store with the
\* status asked for, each once, all of the matching jobs unless more than
\* limit match, newest created_at first.
C7_ListJobs ==
    EventLoopFree =>
    \A status \in StatusFilters, limit \in 0..MaxLimit :
        LET r == list_jobs(status, limit)
            n == Cardinality(Matching(status))
        IN /\ Len(r) <= limit
           /\ Len(r) = IF n < limit THEN n ELSE limit
           /\ \A i \in 1..Len(r) : r[i].id \in Matching(status) /\ r[i] = jobs[r[i].id]
           /\ \A i, j \in 1..Len(r) : i < j =>
                  r[i].id # r[j].id /\ r[i].created_at >= r[j].created_at

\* C7's case: of two jobs the older one is completed; the filter returns it
\* alone, and the unfiltered list has the newer job first.
C7_Witness ==
    /\ EventLoopFree
    /\ Len(jobs) = 2
    /\ jobs[1].created_at < jobs[2].created_at
    /\ Status(1) = COMPLETED /\ Status(2) # COMPLETED
    /\ list_jobs(COMPLETED, MaxLimit) = <<jobs[1]>>
    /\ list_jobs(NoValue, MaxLimit) = <<jobs[2], jobs[1]>>

Percentage(job) == job.progress.progress_percentage

\* C8: while a job is RUNNING its progress_percentage never decreases, up to
\* and including the step that ends the attempt; the retry reset leaves it
\* at 0 and so does the start of every attempt.
C8_Progress ==
    [][\A id \in DOMAIN jobs :
         /\ Status(id) = RUNNING => Percentage(jobs'[id]) >= Percentage(jobs[id])
         /\ (Status(id) = FAILED /\ jobs'[id].status = PENDING) => Percentage(jobs'[id]) = 0
         /\ (Status(id) # RUNNING /\ jobs'[id].status = RUNNING) => Percentage(jobs'[id]) = 0]_vars

\* C8's case: a second attempt that has made progress again.
C8_Witness ==
    \E id \in DOMAIN jobs :
        Status(id) = RUNNING /\ jobs[id].retry_count > 0 /\ Percentage(jobs[id]) = 75

\* C9: every create_job adds exactly one record, under an id no record has,
\* leaves every other record as it was and puts exactly one ticket of the new
\* id on the queue; no other step adds or removes a record; every record is
\* stored under its own id.
C9_CreateJob ==
    /\ [][IF CreateStep
          THEN LET id == req'.job_id
               IN /\ id \notin DOMAIN jobs
                  /\ DOMAIN jobs' = DOMAIN jobs \cup {id}
                  /\ \A other \in DOMAIN jobs : jobs'[other] = jobs[other]
                  /\ jobs'[id].id = id /\ jobs'[id].status = PENDING
                  /\ job_queue' = Append(job_queue, <<jobs'[id].priority, id>>)
          ELSE DOMAIN jobs' = DOMAIN jobs]_vars
    /\ [](\A id \in DOMAIN jobs : jobs[id].id = id)

\* C9's case: a second job was created while a worker was executing the
\* first.
C9_Witness ==
    /\ req.op = "create"
    /\ Cardinality(DOMAIN jobs) = 2
    /\ \E t \in TaskIds : pc[t] \in {"await_search", "await_sleep"}

\* C10: at most max_workers jobs are RUNNING.
C10_RunningBound ==
    Cardinality({id \in DOMAIN jobs : Status(id) = RUNNING}) <= max_workers

\* A step in which worker t ends the attempt it is in, by the success path
\* or through the except handler.
Executing == {"dispatch", "search_request", "agent", "await_search", "await_sleep",
              "completed", "except", "retry"}
SuccessStep(t) == pc[t] = "completed" /\ pc'[t] # "completed"
RetryStep(t) == pc[t] = "retry" /\ pc'[t] # "retry"

\* The workers that are executing job id.
Executors(id) == {t \in TaskIds : pc[t] \in Executing /\ Holds(t, id)}
LoopsExited == \A t \in TaskIds : pc[t] = "none"

\* C11: stop_workers changes nothing but the flag; a worker that is
\* executing a job leaves the execution only by ending the attempt, in
\* COMPLETED, FAILED or PENDING, the flag being false or not; every RUNNING
\* job is in the hands of a worker that executes it; and once the flag is
\* false, start_workers is called again or every worker loop has exited, and
\* with them every attempt that was RUNNING has ended.
C11_StopDrains ==
    /\ [][(workers_running /\ ~workers_running') =>
            UNCHANGED <<jobs, job_queue, pc, ticket, exc>>]_vars
    /\ [][\A t \in TaskIds :
            (pc[t] \in Executing /\ pc'[t] \notin Executing) =>
                /\ SuccessStep(t) \/ RetryStep(t)
                /\ jobs'[ticket[t][2]].status \in {COMPLETED, FAILED, PENDING}]_vars
    /\ [](\A id \in DOMAIN jobs : Status(id) = RUNNING => Executors(id) # {})
    /\ (~workers_running) ~> (workers_running \/ LoopsExited)

\* C11's case: the workers were stopped while one of them is executing a
\* job.
C11_Witness ==
    /\ ~workers_running
    /\ \E t \in TaskIds : pc[t] \in {"await_sleep", "await_search"}
                          /\ Status(ticket[t][2]) = RUNNING

\* C12: the create route answers a valid request with 200 and the status
\* PENDING of the new job, which is then stored and enqueued.
C12_CreateResponse ==
    [][CreateStep =>
         LET id == req'.job_id
         IN /\ req'.code = 200
            /\ req'.detail = PENDING
            /\ id \in DOMAIN jobs' /\ jobs'[id].status = PENDING
            /\ \E i \in 1..Len(job_queue') : job_queue'[i][2] = id]_vars

\* C13: no job has both a result and an error_message, and a PENDING or
\* RUNNING job has neither.
C13_ResultXorError ==
    \A id \in DOMAIN jobs :
        /\ jobs[id].result = NoValue \/ jobs[id].error_message = NoValue
        /\ Status(id) \in {PENDING, RUNNING} =>
               jobs[id].result = NoValue /\ jobs[id].error_message = NoValue

\* C13's case: a job is running again after an attempt that failed and left
\* a message.
C13_Witness ==
    \E id \in DOMAIN jobs :
        /\ Status(id) = RUNNING /\ jobs[id].retry_count > 0
        /\ jobs[id].result = NoValue /\ jobs[id].error_message = NoValue

\* C14: a job has a result only if it is COMPLETED, and a COMPLETED job has
\* the value its executor returned: the health report of a health_check, the
\* search response of a food_search.
C14_ResultOnlyCompleted ==
    \A id \in DOMAIN jobs :
        /\ jobs[id].result # NoValue => Status(id) = COMPLETED
        /\ Status(id) = COMPLETED =>
               jobs[id].result = CASE jobs[id].job_type = HEALTH_CHECK -> "healthy"
                                   [] jobs[id].job_type = FOOD_SEARCH -> "search_response"
                                   [] OTHER -> NoValue
        /\ Status(id) = COMPLETED => jobs[id].result # NoValue

\* C14's case: a completed food search that had failed before.
C14_Witness ==
    \E id \in DOMAIN jobs :
        /\ Status(id) = COMPLETED /\ jobs[id].job_type = FOOD_SEARCH
        /\ jobs[id].retry_count > 0 /\ jobs[id].result = "search_response"

\* C15: a job has an error_message only if it is FAILED, and the step that
\* resets a job to PENDING for a retry leaves it without one.
C15_ErrorOnlyFailed ==
    /\ [](\A id \in DOMAIN jobs : jobs[id].error_message # NoValue => Status(id) = FAILED)
    /\ [][\A id \in DOMAIN jobs :
            (Status(id) = FAILED /\ jobs'[id].status = PENDING) =>
                jobs'[id].error_message = NoValue]_vars

\* C15's case: a job that is out of retries holds the message, next to its
\* own history of retries that were reset.
C15_Witness ==
    \E id \in DOMAIN jobs :
        /\ Status(id) = FAILED /\ ~InHandler(id)
        /\ jobs[id].error_message # NoValue /\ jobs[id].retry_count = max_retries

\* C16: a timestamp that has a value keeps it in every step, created_at has
\* a value from the start, and the timestamps that have a value are ordered
\* created_at <= started_at <= completed_at.
C16_TimestampsOnce ==
    /\ [][\A id \in DOMAIN jobs :
            /\ jobs'[id].created_at = jobs[id].created_at
            /\ jobs[id].started_at # NoTime => jobs'[id].started_at = jobs[id].started_at
            /\ jobs[id].completed_at # NoTime =>
                   jobs'[id].completed_at = jobs[id].completed_at]_vars
    /\ [](\A id \in DOMAIN jobs :
            /\ jobs[id].created_at # NoTime
            /\ jobs[id].started_at # NoTime => jobs[id].created_at <= jobs[id].started_at
            /\ jobs[id].completed_at # NoTime => jobs[id].created_at <= jobs[id].completed_at
            /\ (jobs[id].started_at # NoTime /\ jobs[id].completed_at # NoTime) =>
                   jobs[id].started_at <= jobs[id].completed_at)

\* C17: the queue hands out tickets in the order they were put in: a worker
\* takes the oldest ticket and leaves the others in their order, and every
\* other change of the queue adds one ticket behind all that wait; so of two
\* tickets of the same priority the one enqueued first is dequeued first.
C17_FifoWithinPriority ==
    [][/\ \A t \in TaskIds :
            (pc[t] = "poll" /\ pc'[t] = "held") =>
                /\ ticket'[t] = Head(job_queue)
                /\ job_queue' = Tail(job_queue)
       /\ (\A t \in TaskIds : ~(pc[t] = "poll" /\ pc'[t] = "held")) =>
            \/ job_queue' = job_queue
            \/ /\ Len(job_queue') = Len(job_queue) + 1
               /\ SubSeq(job_queue', 1, Len(job_queue)) = job_queue]_vars

\* C17's case: of two waiting tickets of one priority a worker has taken the
\* one that was enqueued first, and the other still waits.
C17_Witness ==
    \E t \in TaskIds :
        /\ pc[t] = "held" /\ ticket[t][2] = 1
        /\ \E i \in 1..Len(job_queue) :
               job_queue[i][2] = 2 /\ job_queue[i][1] = ticket[t][1]

\* C18: the step that follows a successful return of the executor sets the
\* job COMPLETED with completed_at, the returned value as result and 100%,
\* changes nothing else of the job but the step description, and leaves the
\* queue and every other job alone.
C18_CompleteStep ==
    [][\A t \in TaskIds : SuccessStep(t) =>
         LET id == ticket[t][2]
         IN /\ Status(id) = RUNNING
            /\ jobs'[id].status = COMPLETED
            /\ jobs'[id].completed_at = now /\ jobs'[id].completed_at # NoTime
            /\ jobs'[id].result # NoValue
            /\ Percentage(jobs'[id]) = 100
            /\ jobs'[id].retry_count = jobs[id].retry_count
            /\ jobs'[id].error_message = jobs[id].error_message
            /\ jobs' = [jobs EXCEPT ![id].status = COMPLETED,
                                    ![id].completed_at = jobs'[id].completed_at,
                                    ![id].result = jobs'[id].result,
                                    ![id].progress = jobs'[id].progress]
            /\ job_queue' = job_queue]_vars

\* C18's case: a health check, whose handler stops at 50%, is completed.
C18_Witness ==
    \E id \in DOMAIN jobs :
        /\ Status(id) = COMPLETED /\ jobs[id].job_type = HEALTH_CHECK
        /\ Percentage(jobs[id]) = 100 /\ jobs[id].result = "healthy"

\* C19: when the except handler of a failed attempt finds retry_count <
\* max_retries, it leaves the job PENDING with retry_count one higher, no
\* started_at, completed_at or error_message, the default progress, and one
\* more ticket <<priority, id>> at the end of the queue.
C19_RetryStep ==
    [][\A t \in TaskIds :
         (RetryStep(t) /\ jobs[ticket[t][2]].retry_count < max_retries) =>
             LET id == ticket[t][2]
             IN /\ jobs'[id].retry_count = jobs[id].retry_count + 1
                /\ jobs'[id].status = PENDING
                /\ jobs'[id].started_at = NoTime
                /\ jobs'[id].completed_at = NoTime
                /\ jobs'[id].error_message = NoValue
                /\ jobs'[id].progress.current_step = 0
                /\ jobs'[id].progress.progress_percentage = 0
                /\ jobs'[id].progress = JobProgress
                /\ jobs'[id].priority = jobs[id].priority
                /\ job_queue' = Append(job_queue, <<jobs[id].priority, id>>)]_vars

\* C19's case: a job waits for its third retry with a clean record.
C19_Witness ==
    \E id \in DOMAIN jobs :
        /\ Status(id) = PENDING /\ jobs[id].retry_count = max_retries
        /\ jobs[id].started_at = NoTime /\ Tickets(id) = 1

\* C20: when the except handler of a failed attempt finds retry_count =
\* max_retries, it leaves the job FAILED with completed_at and the message
\* of this failure and enqueues nothing; from then on the job's status,
\* error_message and retry_count stay as they are.
C20_FinalFailure ==
    /\ [][\A t \in TaskIds :
            (RetryStep(t) /\ jobs[ticket[t][2]].retry_count = max_retries) =>
                LET id == ticket[t][2]
                IN /\ jobs'[id].status = FAILED
                   /\ jobs'[id].completed_at # NoTime
                   /\ jobs'[id].error_message = exc[t]
                   /\ jobs'[id].error_message # NoValue
                   /\ job_queue' = job_queue]_vars
    /\ [][\A id \in DOMAIN jobs :
            (Status(id) = FAILED /\ ~InHandler(id)) =>
                /\ jobs'[id].status = FAILED
                /\ jobs'[id].error_message = jobs[id].error_message
                /\ jobs'[id].retry_count = jobs[id].retry_count]_vars

\* C20's case: a food search whose last attempt failed in the search itself
\* rests in FAILED with that message.
C20_Witness ==
    \E id \in DOMAIN jobs :
        /\ Status(id) = FAILED /\ ~InHandler(id)
        /\ jobs[id].error_message = "search failed"
        /\ jobs[id].completed_at # NoTime

\* The job types _execute_job has no handler for, and the message of its
\* ValueError.
Unhandled == JobType \ {FOOD_SEARCH, HEALTH_CHECK}
UnknownType(job) == "Unknown job type: " \o job.job_type

\* C21: a job of a type without a handler is never COMPLETED; every pickup
\* of it ends in the unknown-job-type error, which is the only message the
\* job ever carries; it is picked up at most max_retries + 1 times, and when
\* it rests in FAILED it was picked up exactly that often and its
\* error_message names the type.
C21_UnknownTypeFails ==
    /\ [](\A id \in DOMAIN jobs : jobs[id].job_type \in Unhandled =>
            /\ Status(id) # COMPLETED
            /\ attempts[id] <= max_retries + 1
            /\ jobs[id].error_message \in {NoValue, UnknownType(jobs[id])}
            /\ (Status(id) = FAILED /\ ~InHandler(id)) =>
                   /\ attempts[id] = max_retries + 1
                   /\ jobs[id].error_message = "Unknown job type: restaurant_search")
    /\ [][\A t \in TaskIds :
            (pc[t] = "dispatch" /\ pc'[t] # "dispatch"
                /\ jobs[ticket[t][2]].job_type \in Unhandled) =>
                    /\ pc'[t] = "except"
                    /\ exc'[t] = UnknownType(jobs[ticket[t][2]])]_vars

\* C21's case: a restaurant_search is out of retries.
C21_Witness ==
    \E id \in DOMAIN jobs :
        /\ jobs[id].job_type = RESTAURANT_SEARCH
        /\ Status(id) = FAILED /\ ~InHandler(id) /\ attempts[id] = max_retries + 1

\* C22: a CANCELLED job has no started_at and no worker is executing or about
\* to execute it; nothing of its record changes any more and it is not picked
\* up; a worker that finds its dequeued ticket to be of a CANCELLED job drops
\* the ticket and goes on with its loop.
C22_CancelledNeverRuns ==
    /\ [](\A id \in DOMAIN jobs : Status(id) = CANCELLED =>
            /\ jobs[id].started_at = NoTime
            /\ Executors(id) = {}
            /\ \A t \in TaskIds : pc[t] = "execute" => ~Holds(t, id))
    /\ [][\A id \in DOMAIN jobs : Status(id) = CANCELLED =>
            jobs'[id] = jobs[id] /\ attempts'[id] = attempts[id]]_vars
    /\ [][\A t \in TaskIds :
            (pc[t] = "held" /\ pc'[t] # "held" /\ Status(ticket[t][2]) = CANCELLED) =>
                /\ ticket'[t] = NoTicket
                /\ pc'[t] \in {"poll", "none"}
                /\ job_queue' = job_queue]_vars

\* C22's case: the ticket of a job that was cancelled before any pickup has
\* been dequeued and dropped.
C22_Witness ==
    \E id \in DOMAIN jobs :
        Status(id) = CANCELLED /\ Tickets(id) = 0 /\ attempts[id] = 0

lock_owner == {t \in TaskIds : pc[t] = "retry"}
WritePositions ==
    {"execute", "dispatch", "search_request", "agent", "await_search", "completed",
     "except", "retry"}
Awaiting == {"poll", "await_search", "await_sleep"}

Outstanding(id) ==
    Cardinality({i \in 1..Len(job_queue) : job_queue[i][2] = id})
    + Cardinality({t \in TaskIds : pc[t] \in {"held", "execute"} /\ Holds(t, id)})

\* C25: no job has more than one ticket, in the queue and in the workers'
\* hands together; no job is executed by two workers; a RUNNING job has no
\* ticket waiting for a pickup, and no worker dequeues the ticket of a job
\* that is RUNNING or being executed.
C25_OneTicketPerJob ==
    /\ [](\A id \in DOMAIN jobs :
            /\ Tickets(id) <= 1
            /\ Outstanding(id) <= 1
            /\ Cardinality(Executors(id)) <= 1
            /\ Status(id) = RUNNING => Outstanding(id) = 0)
    /\ [][\A t \in TaskIds :
            (pc[t] = "poll" /\ pc'[t] = "held") =>
                Status(ticket'[t][2]) # RUNNING /\ Executors(ticket'[t][2]) = {}]_vars

\* C25's case: two workers execute two jobs side by side.
C25_Witness ==
    \E a, b \in DOMAIN jobs :
        /\ a # b /\ Status(a) = RUNNING /\ Status(b) = RUNNING
        /\ Executors(a) # {} /\ Executors(b) # {} /\ Executors(a) # Executors(b)

\* C26: every PENDING job has a ticket in the queue or in the hands of a
\* worker that dequeued it and has not marked it RUNNING yet (the re-check
\* and the write of RUNNING follow each other without an await).
C26_PendingHasTicket ==
    \A id \in DOMAIN jobs : Status(id) = PENDING => Outstanding(id) >= 1

\* C26's case: after a stop the ticket of a retried job is in the hands of
\* a worker that has not looked at it yet.
C26_Witness ==
    /\ ~workers_running
    /\ \E id \in DOMAIN jobs, t \in TaskIds :
           /\ Status(id) = PENDING /\ jobs[id].retry_count > 0
           /\ pc[t] = "held" /\ Holds(t, id)

\* A job has ended for good.
AtRest(id) == Status(id) \in {COMPLETED, FAILED, CANCELLED} /\ ~InHandler(id)

\* C27: if the workers are running from some point on, then from some point
\* on every job that was created is COMPLETED, FAILED or CANCELLED for good.
C27_JobsTerminate ==
    (<>[]workers_running) => <>[](\A id \in DOMAIN jobs : AtRest(id))

\* C27's case: with the workers running, every job the callers could create
\* has ended.
C27_Witness ==
    /\ workers_running
    /\ Cardinality(DOMAIN jobs) = limits.jobs
    /\ \A id \in DOMAIN jobs : AtRest(id)

\* C28: retry_count is 0 for a new job and lies in 0..max_retries; a step
\* leaves it as it is or, taking the job from FAILED back to PENDING, adds 1;
\* a job that was never picked up has 0, and a COMPLETED job has one less
\* than the number of its attempts, 0 if the first attempt completed.
C28_RetryCount ==
    /\ [](\A id \in DOMAIN jobs :
            /\ jobs[id].retry_count \in 0..max_retries
            /\ attempts[id] = 0 => jobs[id].retry_count = 0
            /\ Status(id) = COMPLETED => jobs[id].retry_count = attempts[id] - 1)
    /\ [][CreateStep => jobs'[req'.job_id].retry_count = 0]_vars
    /\ [][\A id \in DOMAIN jobs :
            \/ jobs'[id].retry_count = jobs[id].retry_count
            \/ /\ jobs'[id].retry_count = jobs[id].retry_count + 1
               /\ Status(id) = FAILED /\ jobs'[id].status = PENDING]_vars

\* C28's case: a job that completed on its last attempt.
C28_Witness ==
    \E id \in DOMAIN jobs :
        Status(id) = COMPLETED /\ jobs[id].retry_count = max_retries

\* C29: at most max_workers worker loops are alive.
C29_LiveLoopsBound ==
    Cardinality({t \in TaskIds : pc[t] # "none"}) <= max_workers

\* C30: stop_workers changes no job record and no ticket; while the flag
\* stays false no worker begins another poll, so that a worker picks up at
\* most the job whose ticket its pending poll returns; and once all loops
\* have exited, every PENDING job has its one ticket in the queue, and the
\* tickets and the PENDING jobs stay, a cancel apart.
C30_StopLeavesJobs ==
    /\ [][(workers_running /\ ~workers_running') =>
            jobs' = jobs /\ job_queue' = job_queue]_vars
    /\ [][(~workers_running /\ ~workers_running') =>
            \A t \in TaskIds : pc'[t] = "poll" => pc[t] = "poll"]_vars
    /\ [](((~workers_running) /\ LoopsExited) =>
            \A id \in DOMAIN jobs : Status(id) = PENDING =>
                Cardinality({i \in 1..Len(job_queue) : job_queue[i][2] = id}) = 1)
    /\ [][((~workers_running) /\ LoopsExited /\ ~workers_running') =>
            /\ \A t \in TaskIds : pc'[t] = "none"
            /\ \A i \in 1..Len(job_queue) :
                   i <= Len(job_queue') /\ job_queue'[i] = job_queue[i]
            /\ \A id \in DOMAIN jobs : Status(id) = PENDING =>
                   \/ jobs'[id] = jobs[id]
                   \/ CancelStep /\ jobs'[id].status = CANCELLED]_vars

\* C30's case: the loops have exited after a stop; one job was run to its
\* end, another is still PENDING.
C30_Witness ==
    /\ ~workers_running
    /\ LoopsExited
    /\ \E a, b \in DOMAIN jobs : Status(a) = COMPLETED /\ Status(b) = PENDING
====
